---- MODULE Spec2Model ----
(***************************************************************************)
(* The live-stream part of VialVision: the Camera class (app/camera.py),   *)
(* its capture threads, and the WebSocket session loop that owns one       *)
(* Camera (app/api.py, websocket_endpoint).                                *)
(*                                                                         *)
(* The Camera is driven either by the session loop (spc starts at "recv")  *)
(* or directly by a sequential caller of its public methods (spc stays     *)
(* "direct"), so that the methods are exercised on every state they can be *)
(* called in, not only on those the session loop calls them in.            *)
(*                                                                         *)
(* The functions of the frame pipeline from the detections on              *)
(* (app/inference.py, app/mpn/mpn_lookup.py, _compute_mpn in app/api.py)   *)
(* and the parsing of a resolution string are each called on its own on    *)
(* every argument of a bounded set (spc stays "post").                     *)
(*                                                                         *)
(* Three more drivers: the start of the process (app/main.py), which loads *)
(* the MPN table of some file before it registers the routes (spc starts   *)
(* at "boot"); two sessions side by side, reduced to their thresholds (spc *)
(* stays "peers"); and a Camera called directly whose device can be lost   *)
(* while it is open (spc stays "lossy").                                   *)
(*                                                                         *)
(* The predictions table (app/db) is saved into, deleted from and pruned   *)
(* on its own (spc stays "db").                                            *)
(***************************************************************************)
EXTENDS Integers, Sequences, FiniteSets, TLC

\* ------------------------------------------------------------------ bounds
MaxStarts == 2      \* capture objects created by Camera.start (cv2.VideoCapture)
MaxDetections == 10 \* detections of one frame
MaxResLen == 5      \* characters of a resolution string
MaxBoxes == 3       \* detections handed to suppress_duplicate_tubes
MaxRows == 2        \* rows of mpn_table.csv after its header
MaxTime == 2        \* seconds CURRENT_TIMESTAMP can read
MaxSaves == 3       \* save_prediction calls of one run
MAX_HISTORY == 2    \* rows kept by the pruning; database.py:31 sets 500
MaxLossStarts == 1  \* capture objects created in the runs in which a device can be lost

\* --------------------------------------------------------------- constants
DEFAULT_CONF == 40  \* session_conf = 0.4, in hundredths

Handles     == 1..MaxStarts
NoFrame     == [dev |-> 0, seq |-> 0]                 \* Python None as a frame
DefaultRes  == <<640, 480>>
Resolutions == {DefaultRes, <<320, 240>>}
NoRes       == <<0, 0>>
ConfValues  == {DEFAULT_CONF, 90}
NoConf      == 0                                      \* no call of run_inference_with_count
Sessions    == {1, 2}                                 \* two connections of /ws
Caller      == 0 - 1                                  \* lock owner: the thread calling get_frame/stop

VARIABLES
    \* Camera fields
    cap,            \* self.cap: 0 (None) or the handle of a capture object
    capRes,         \* width/height set on self.cap
    is_running,     \* self.is_running
    latest_frame,   \* self._latest_frame
    frame_lock,     \* self._frame_lock: 0 free, a thread id, or Caller
    thread,         \* self._thread: 0 (None) or a thread id
    \* capture objects and devices
    handles,        \* handle -> "unused" | "open" | "failed" | "lost" | "released"
    \* capture threads (the thread started for handle h has id h)
    tpc,            \* position in _capture_loop
    tcap,           \* the capture object a running cap.read() was called on
    tframe,         \* the local variable frame
    abandoned,      \* live threads a stop() gave up joining (join timed out)
    \* the caller's position inside a Camera method
    cpc,
    got,            \* value returned by the last get_frame()
    lastCall,       \* how the Camera method call of the last operation ended
    joinTimedOut,   \* whether the join of the stop() in progress timed out
    \* session loop
    spc,            \* position in websocket_endpoint, or the name of another driver
    session_conf,
    sent,           \* modes of the messages sent while handling the last event
    exitCause,      \* how the session loop was left: "disconnect" or "error"
    closeFailed,    \* websocket.close() raised (and was swallowed)
    \* history
    stopDone,       \* a stop() completed and no later start's thread wrote a frame since
    lastWrite,      \* frame of the last completed write since the last clear
    \* the functions of the frame pipeline and of message parsing, called on their own
    MPN_TABLE,      \* mpn_lookup._MPN_TABLE: pattern -> [mpn, low, high]
    fn,             \* the function called
    arg,            \* its argument
    returned,       \* [raised, value]: the exception it raised, or the value it returned
    looked_up,      \* lookup_mpn was called
    \* two connections of /ws side by side, their cameras left out
    db,             \* the predictions table (app/db): its rows, the next id, and
                    \* what the last call did to it
    peers           \* of each: position in websocket_endpoint, session_conf, the
                    \* conf given to its last call of run_inference_with_count,
                    \* and (history) the value of its last set_conf with a number

camVars  == <<cap, capRes, is_running, latest_frame, frame_lock, thread>>
devVars  == <<handles>>
thrVars  == <<tpc, tcap, tframe, abandoned>>
callVars == <<cpc, got, lastCall, joinTimedOut>>
sessVars == <<spc, session_conf, sent, exitCause, closeFailed>>
histVars == <<stopDone, lastWrite>>
postVars == <<MPN_TABLE, fn, arg, returned, looked_up, peers, db>>
vars     == <<camVars, devVars, thrVars, callVars, sessVars, histVars, postVars>>

\* ------------------------- the frame pipeline (app/inference.py, app/api.py)
None     == "None"                                    \* Python None as a field value
Pending  == [raised |-> "pending", value |-> <<>>]    \* the call has not returned
Raise(e) == [raised |-> e, value |-> <<>>]
Return(v) == [raised |-> None, value |-> v]

SeqsUpTo(S, n) == UNION {[1..k -> S] : k \in 0..n}

\* detections as run_inference_with_count returns them (inference.py:139-140):
\* deduplicated, left to right
Labels         == {"Yellow_NoBubble", "Yellow_Bubble"}
Detections     == [label : Labels]
DetectionLists == SeqsUpTo(Detections, MaxDetections)
TubeVectors    == [1..9 -> {0, 1}]

\* Python s[a:b] for 0 <= a <= b
Slice(s, a, b) ==
    IF a >= Len(s) THEN <<>> ELSE SubSeq(s, a + 1, IF b < Len(s) THEN b ELSE Len(s))

RECURSIVE Sum(_)
Sum(s) == IF s = <<>> THEN 0 ELSE Head(s) + Sum(Tail(s))

\* ---------------- suppress_duplicate_tubes(detections), inference.py:25-63
\* A detection as the detector gives it: label, confidence, bbox = [x1, y1,
\* x2, y2]. Coordinates are small integers; the comparisons of the code are
\* made exactly (on these values the floating-point ones agree with them).
Lefts       == {0, 1}
Widths      == {0, 1, 2}
Confidences == {1, 2}
Boxes       == {[label |-> "Yellow_NoBubble", confidence |-> c, bbox |-> <<x, 0, x + w, 1>>] :
                    x \in Lefts, w \in Widths, c \in Confidences}
BoxLists    == SeqsUpTo(Boxes, MaxBoxes)

Abs(n) == IF n < 0 THEN 0 - n ELSE n

\* widths = [d["bbox"][2] - d["bbox"][0] for d in detections], line 40
RECURSIVE SumWidths(_)
SumWidths(ds) ==
    IF ds = <<>> THEN 0 ELSE (Head(ds).bbox[3] - Head(ds).bbox[1]) + SumWidths(Tail(ds))

\* sorted(detections, key=lambda d: d["bbox"][0]), line 44: a stable sort
RECURSIVE InsertByLeft(_, _)
InsertByLeft(d, sorted) ==
    IF sorted = <<>> THEN <<d>>
    ELSE IF d.bbox[1] < Head(sorted).bbox[1] THEN <<d>> \o sorted
    ELSE <<Head(sorted)>> \o InsertByLeft(d, Tail(sorted))

RECURSIVE SortByLeft(_)
SortByLeft(ds) ==
    IF ds = <<>> THEN <<>>
    ELSE InsertByLeft(ds[Len(ds)], SortByLeft(SubSeq(ds, 1, Len(ds) - 1)))

\* abs(cx - prev_cx) < x_thresh, line 57, with cx = (x1 + x2) / 2 and
\* x_thresh = (total / n) * 0.4: multiplied by 10 n
Near(det, prev, n, total) ==
    5 * n * Abs((det.bbox[1] + det.bbox[3]) - (prev.bbox[1] + prev.bbox[3])) < 4 * total

\* the sweep of lines 47-61; merged[k] lists, in the order of the sweep, the
\* detections that were appended at or merged into position k of filtered
RECURSIVE SweepLaterWins(_, _, _, _)
SweepLaterWins(todo, acc, n, total) ==
    IF todo = <<>> THEN acc
    ELSE LET det  == Head(todo)
             last == Len(acc.filtered)
         IN  IF last = 0 \/ ~Near(det, acc.filtered[last], n, total)
             THEN SweepLaterWins(Tail(todo),
                        [filtered |-> Append(acc.filtered, det),
                         merged   |-> Append(acc.merged, <<det>>)], n, total)
             ELSE SweepLaterWins(Tail(todo),
                        [filtered |-> IF det.confidence >= acc.filtered[last].confidence
                                      THEN [acc.filtered EXCEPT ![last] = det]
                                      ELSE acc.filtered,
                         merged   |-> [acc.merged EXCEPT ![last] = Append(@, det)]], n, total)

RECURSIVE Sweep(_, _, _, _)
Sweep(todo, acc, n, total) ==
    IF todo = <<>> THEN acc
    ELSE LET det  == Head(todo)
             last == Len(acc.filtered)
         IN  IF last = 0 \/ ~Near(det, acc.filtered[last], n, total)
             THEN Sweep(Tail(todo),
                        [filtered |-> Append(acc.filtered, det),
                         merged   |-> Append(acc.merged, <<det>>)], n, total)
             ELSE Sweep(Tail(todo),
                        [filtered |-> IF det.confidence > acc.filtered[last].confidence
                                      THEN [acc.filtered EXCEPT ![last] = det]
                                      ELSE acc.filtered,
                         merged   |-> [acc.merged EXCEPT ![last] = Append(@, det)]], n, total)

SweepOf(detections) ==
    Sweep(SortByLeft(detections), [filtered |-> <<>>, merged |-> <<>>],
          Len(detections), SumWidths(detections))

SuppressNothingKept(detections) == <<>>

SuppressDuplicateTubes(detections) ==
    IF detections = <<>> THEN <<>> ELSE SweepOf(detections).filtered

\* ---- conf = max(0.05, min(0.95, conf)), inference.py:115
\* A float is a number of hundredths or NaN (float() of a set_conf value gives
\* NaN for NaN and for "nan"); every comparison with NaN is false.
NaN         == [nan |-> TRUE, v |-> 0]
Float(n)    == [nan |-> FALSE, v |-> n]
Hundredths  == {0 - 100, 0, 4, 5, 6, 40, 94, 95, 96, 100, 150}
ConfFloats  == {Float(n) : n \in Hundredths} \cup {NaN}
Less(a, b)  == ~a.nan /\ ~b.nan /\ a.v < b.v

\* min(a, b) and max(a, b) of Python: the first argument unless the second
\* is smaller (greater)
PyMin(a, b) == IF Less(b, a) THEN b ELSE a
PyMax(a, b) == IF Less(a, b) THEN b ELSE a

ClampUpperOnly(conf) == PyMin(Float(95), conf)

Clamp(conf) == PyMax(Float(5), PyMin(Float(95), conf))

\* detections_to_tubes(detections), inference.py:66-82
DetectionsToTubesUnchecked(detections) ==
    Return([i \in 1..Len(detections) |->
                IF detections[i].label = "Yellow_NoBubble" THEN 1 ELSE 0])

DetectionsToTubes(detections) ==
    LET tubes == [i \in 1..Len(detections) |->
                    IF detections[i].label = "Yellow_NoBubble" THEN 1 ELSE 0]
    IN  IF Len(tubes) # 9 THEN Raise("ValueError") ELSE Return(tubes)

\* tubes_to_xyz(tubes), inference.py:85-94
TubesToXyzOverlap(tubes) ==
    <<Sum(Slice(tubes, 0, 3)), Sum(Slice(tubes, 2, 6)), Sum(Slice(tubes, 6, 9))>>

TubesToXyz(tubes) ==
    <<Sum(Slice(tubes, 0, 3)), Sum(Slice(tubes, 3, 6)), Sum(Slice(tubes, 6, 9))>>

\* f"P{x}{y}{z}", mpn_lookup.py:88
PatternKey(x, y, z) == "P" \o ToString(x) \o ToString(y) \o ToString(z)

\* lookup_mpn(x, y, z) on the table loaded, mpn_lookup.py:74-98
LookupMpnBlankMiss(table, x, y, z) ==
    LET key == PatternKey(x, y, z)
    IN  IF key \notin DOMAIN table
        THEN [pattern |-> None, mpn |-> None, low |-> None, high |-> None]
        ELSE [pattern |-> key, mpn |-> table[key].mpn,
              low |-> table[key].low, high |-> table[key].high]

LookupMpnNoEntry(table, x, y, z) ==
    [pattern |-> PatternKey(x, y, z), mpn |-> None, low |-> None, high |-> None]

LookupMpn(table, x, y, z) ==
    LET key == PatternKey(x, y, z)
    IN  IF key \notin DOMAIN table
        THEN [pattern |-> key, mpn |-> None, low |-> None, high |-> None]
        ELSE [pattern |-> key, mpn |-> table[key].mpn,
              low |-> table[key].low, high |-> table[key].high]

\* the tables load_mpn_table can leave in _MPN_TABLE (mpn_lookup.py:58-64): one
\* row per pattern read from mpn_table.csv, which may list every pattern, some,
\* or none
Patterns     == {PatternKey(x, y, z) : x \in 0..3, y \in 0..3, z \in 0..3}
Row(p)       == [mpn |-> "mpn_per_g of " \o p, low |-> "ci_low of " \o p,
                 high |-> "ci_high of " \o p]
FullTable    == [p \in Patterns |-> Row(p)]
PartialTable == [p \in {PatternKey(x, y, z) : x \in 2..3, y \in 0..3, z \in 0..1} |-> Row(p)]
EmptyTable   == [p \in {} |-> Row(p)]
Tables       == {FullTable, PartialTable, EmptyTable}

\* ---- load_mpn_table(), mpn_lookup.py:17-71, on the file mpn_table.csv
\* A file is: whether it exists; its header line, if it has a line at all
\* (head is <<>> for a file of no line, csv.DictReader.fieldnames None); its
\* rows. A row is the cells csv.reader gives, each a sequence of characters, or
\* one that makes csv.reader raise csv.Error (or open() UnicodeDecodeError).
_REQUIRED_COLUMNS == {"pattern", "mpn_per_g", "ci_low", "ci_high"}

FullHeader == <<"pattern", "mpn_per_g", "ci_low", "ci_high">>
Headers ==
    {FullHeader,
     <<"mpn_per_g", "pattern", "ci_high", "ci_low", "note">>,
     <<"pattern", "mpn_per_gram", "ci_low", "ci_high">>,
     <<"mpn_per_g", "ci_low", "ci_high">>,
     <<"pattern", "mpn_per_g", "ci_low">>,
     <<>>}

FullCells ==
    {<<p, m, <<"1">>, <<"9">> >> :
        p \in {<<"P", "0", "0", "0">>, <<" ", "P", "3", "0", "0", " ">>},
        m \in {<<"7">>, <<" ", "3">>}}
CsvRows ==
    {[error |-> FALSE, cells |-> c] : c \in FullCells}
    \cup {[error |-> FALSE, cells |-> SubSeq(<<<<"P", "0", "0", "0">>, <<"7">>, <<"1">>, <<"9">> >>, 1, n)] :
            n \in {0, 1, 3}}
    \cup {[error |-> TRUE, cells |-> <<>>]}
CsvFiles ==
    {[exists |-> FALSE, head |-> <<>>, rows |-> <<>>],
     [exists |-> TRUE, head |-> <<>>, rows |-> <<>>]}
    \cup {[exists |-> TRUE, head |-> <<h>>, rows |-> r] :
            h \in Headers, r \in SeqsUpTo(CsvRows, MaxRows)}

Range(s) == {s[i] : i \in 1..Len(s)}

\* str.strip() and the string of a sequence of characters
RECURSIVE LStrip(_)
LStrip(s) == IF s # <<>> /\ Head(s) = " " THEN LStrip(Tail(s)) ELSE s
RECURSIVE RStrip(_)
RStrip(s) == IF s # <<>> /\ s[Len(s)] = " " THEN RStrip(SubSeq(s, 1, Len(s) - 1)) ELSE s
RECURSIVE Join(_)
Join(s)   == IF s = <<>> THEN "" ELSE Head(s) \o Join(Tail(s))
Strip(s)  == Join(RStrip(LStrip(s)))

\* csv.DictReader: row[column]; a row shorter than the header has None
\* (restval) for the columns it lacks
ColumnIndex(header, column) == CHOOSE i \in 1..Len(header) : header[i] = column
HasCell(header, row, column) == ColumnIndex(header, column) <= Len(row.cells)
Cell(header, row, column)    == row.cells[ColumnIndex(header, column)]

\* _MPN_TABLE[key] = {...}, mpn_lookup.py:59-64
SetRow(table, key, value) ==
    [k \in DOMAIN table \cup {key} |-> IF k = key THEN value ELSE table[k]]

\* the loop over the rows, mpn_lookup.py:58-64; a row of no cell is skipped
\* by csv.DictReader
RECURSIVE LoadRowsSkipping(_, _, _)
LoadRowsSkipping(header, rows, table) ==
    IF rows = <<>> THEN [raised |-> None, table |-> table]
    ELSE LET row == Head(rows)
         IN  IF row.error \/ row.cells = <<>>
                \/ \E c \in _REQUIRED_COLUMNS : ~HasCell(header, row, c)
             THEN LoadRowsSkipping(header, Tail(rows), table)
             ELSE LoadRowsSkipping(header, Tail(rows),
                      SetRow(table, Strip(Cell(header, row, "pattern")),
                             [mpn  |-> Strip(Cell(header, row, "mpn_per_g")),
                              low  |-> Strip(Cell(header, row, "ci_low")),
                              high |-> Strip(Cell(header, row, "ci_high"))]))

RECURSIVE LoadRows(_, _, _)
LoadRows(header, rows, table) ==
    IF rows = <<>> THEN [raised |-> None, table |-> table]
    ELSE LET row == Head(rows)
         IN  IF row.error THEN [raised |-> "RuntimeError", table |-> table]
             ELSE IF row.cells = <<>> THEN LoadRows(header, Tail(rows), table)
             ELSE IF \E c \in _REQUIRED_COLUMNS : ~HasCell(header, row, c)
             THEN [raised |-> "AttributeError", table |-> table]
             ELSE LoadRows(header, Tail(rows),
                      SetRow(table, Strip(Cell(header, row, "pattern")),
                             [mpn  |-> Strip(Cell(header, row, "mpn_per_g")),
                              low  |-> Strip(Cell(header, row, "ci_low")),
                              high |-> Strip(Cell(header, row, "ci_high"))]))

LoadMpnTableLenient(file) ==
    IF ~file.exists THEN [raised |-> "FileNotFoundError", table |-> EmptyTable]
    ELSE IF file.head = <<>> THEN [raised |-> "RuntimeError", table |-> EmptyTable]
    ELSE IF ~(_REQUIRED_COLUMNS \subseteq Range(file.head[1]))
    THEN [raised |-> "ValueError", table |-> EmptyTable]
    ELSE LoadRowsSkipping(file.head[1], file.rows, EmptyTable)

\* load_mpn_table(): what it raises and the table it leaves
LoadMpnTable(file) ==
    IF ~file.exists THEN [raised |-> "FileNotFoundError", table |-> EmptyTable]
    ELSE IF file.head = <<>> THEN [raised |-> "RuntimeError", table |-> EmptyTable]
    ELSE IF ~(_REQUIRED_COLUMNS \subseteq Range(file.head[1]))
    THEN [raised |-> "ValueError", table |-> EmptyTable]
    ELSE LoadRows(file.head[1], file.rows, EmptyTable)

\* counts handed to lookup_mpn: those of three tubes, and one no group of
\* three tubes can give
Counts       == 0..4

\* _compute_mpn(detections, total_count), api.py:33-57; calls: whether
\* lookup_mpn was called
ComputeMpnUnchecked(table, detections, total_count) ==
    LET tubes == DetectionsToTubes(detections)
    IN  IF tubes.raised # None
        THEN [raised |-> tubes.raised, calls |-> FALSE, value |-> <<>>]
        ELSE LET xyz    == TubesToXyz(tubes.value)
                 result == LookupMpn(table, xyz[1], xyz[2], xyz[3])
             IN  [raised |-> None, calls |-> TRUE,
                  value |-> [tubes |-> tubes.value, pattern |-> result.pattern,
                             mpn |-> result.mpn, ci_low |-> result.low,
                             ci_high |-> result.high]]

ComputeMpn(table, detections, total_count) ==
    IF total_count # 9
    THEN [raised |-> None, calls |-> FALSE,
          value |-> [tubes |-> <<>>, pattern |-> None, mpn |-> None,
                     ci_low |-> None, ci_high |-> None]]
    ELSE LET tubes == DetectionsToTubes(detections)
         IN  IF tubes.raised # None
             THEN [raised |-> tubes.raised, calls |-> FALSE, value |-> <<>>]
             ELSE LET xyz    == TubesToXyz(tubes.value)
                      result == LookupMpn(table, xyz[1], xyz[2], xyz[3])
                  IN  [raised |-> None, calls |-> TRUE,
                       value |-> [tubes |-> tubes.value, pattern |-> result.pattern,
                                  mpn |-> result.mpn, ci_low |-> result.low,
                                  ci_high |-> result.high]]

\* the result message of one frame, api.py:227-239 (mode "client") and
\* 284-296 (mode "server"); total_count is len(detections), inference.py:140
ResultMessage(table, mode, detections) ==
    LET total_count == Len(detections)
        mpn         == ComputeMpn(table, detections, total_count)
    IN  IF mpn.raised # None
        THEN [raised |-> mpn.raised, calls |-> mpn.calls, value |-> <<>>]
        ELSE [raised |-> None, calls |-> mpn.calls,
              value |-> [mode |-> mode, total_tubes |-> total_count,
                         tubes |-> mpn.value.tubes, pattern |-> mpn.value.pattern,
                         mpn |-> mpn.value.mpn, ci_low |-> mpn.value.ci_low,
                         ci_high |-> mpn.value.ci_high]]

\* ------------------- the resolution of start_server_stream (api.py:249-253)
\* A string is the sequence of its characters.
DigitChars == <<"0", "1", "2", "3", "4", "5", "6", "7", "8", "9">>
IsDigit(c) == \E i \in 1..10 : DigitChars[i] = c
DigitValue(c) == (CHOOSE i \in 1..10 : DigitChars[i] = c) - 1

\* str.split(sep)
RECURSIVE Split(_, _)
Split(s, sep) ==
    IF \A i \in 1..Len(s) : s[i] # sep
    THEN <<s>>
    ELSE LET i == CHOOSE j \in 1..Len(s) : s[j] = sep /\ \A k \in 1..(j - 1) : s[k] # sep
         IN  <<SubSeq(s, 1, i - 1)>> \o Split(SubSeq(s, i + 1, Len(s)), sep)

\* int(s): an optional sign and at least one digit, else ValueError
Unsigned(s) == IF s # <<>> /\ Head(s) = "-" THEN Tail(s) ELSE s
IsIntLiteral(s) == Unsigned(s) # <<>> /\ \A i \in 1..Len(Unsigned(s)) : IsDigit(Unsigned(s)[i])

RECURSIVE DecimalValue(_)
DecimalValue(s) ==
    IF s = <<>> THEN 0 ELSE 10 * DecimalValue(SubSeq(s, 1, Len(s) - 1)) + DigitValue(s[Len(s)])

IntOf(s) == IF Head(s) = "-" THEN 0 - DecimalValue(Tail(s)) ELSE DecimalValue(s)

\* "1x2x3" read as 1 by 2
ParseFirstTwo(resolution) ==
    LET parts == Split(resolution, "x")
    IN  IF Len(parts) >= 2 /\ IsIntLiteral(parts[1]) /\ IsIntLiteral(parts[2])
        THEN <<IntOf(parts[1]), IntOf(parts[2])>>
        ELSE <<640, 480>>

\* width, height = map(int, resolution.split("x")), except ValueError: 640, 480
ParseResolution(resolution) ==
    LET parts == Split(resolution, "x")
    IN  IF Len(parts) = 2 /\ IsIntLiteral(parts[1]) /\ IsIntLiteral(parts[2])
        THEN <<IntOf(parts[1]), IntOf(parts[2])>>
        ELSE <<640, 480>>

ResChars          == {"6", "4", "x", "a", "-"}
ResolutionStrings == SeqsUpTo(ResChars, MaxResLen)

\* ------------------------------------------------------------------- Init
\* No function of the pipeline is called on its own. The loop and the Camera
\* never read the table: it is left as mpn_lookup.py:14 creates it.
PostIdle ==
    /\ MPN_TABLE = EmptyTable
    /\ fn = "none" /\ arg = <<>>

\* One function is called on one argument: the processing of a pushed or of a
\* polled frame (from the detections on), detections_to_tubes, tubes_to_xyz,
\* or the parsing of a resolution string.
PostCalls ==
    \/ /\ fn \in {"push_frame", "poll_frame"}
       /\ arg \in DetectionLists
       /\ MPN_TABLE \in Tables
    \/ /\ fn = "detections_to_tubes"
       /\ arg \in DetectionLists
       /\ MPN_TABLE = FullTable
    \/ /\ fn = "tubes_to_xyz"
       /\ arg \in TubeVectors
       /\ MPN_TABLE = FullTable
    \/ /\ fn = "parse_resolution"
       /\ arg \in ResolutionStrings
       /\ MPN_TABLE = FullTable
    \/ /\ fn = "suppress_duplicate_tubes"
       /\ arg \in BoxLists
       /\ MPN_TABLE = EmptyTable
    \/ /\ fn = "lookup_mpn"
       /\ arg \in Counts \X Counts \X Counts
       /\ MPN_TABLE \in Tables
    \/ /\ fn = "run_inference_with_count"
       /\ arg \in ConfFloats
       /\ MPN_TABLE = EmptyTable

\* ---- the predictions table, app/db/database.py:38-52
\* A row is its id and its created_at, in seconds (CURRENT_TIMESTAMP reads
\* the wall clock in whole seconds: two inserts can get the same value, and
\* after the clock was set back a later insert gets an earlier one).
Times    == 1..MaxTime
NoOp     == [op |-> "none", id |-> 0, removed |-> {}]
NoDb     == [pc |-> "none", rows |-> {}, seq |-> 1, last |-> NoOp]

\* the database file a run finds: the rows of earlier runs, which can be
\* more than MAX_HISTORY (database.py:99)
DbFiles  ==
    {[pc |-> "file", seq |-> k + 1, last |-> NoOp,
      rows |-> {[id |-> i, created_at |-> f[i]] : i \in 1..k}] :
        k \in 0..(MAX_HISTORY + 1), f \in [1..(MAX_HISTORY + 1) -> Times]}

\* _prune_oldest(), database.py:107-149: the sets of rows it can delete.
\* ORDER BY created_at ASC LIMIT excess leaves the order of rows of equal
\* created_at to the database.
Pruned(rows) ==
    LET excess == Cardinality(rows) - MAX_HISTORY
    IN  IF excess <= 0 THEN {{}}
        ELSE {S \in SUBSET rows :
                /\ Cardinality(S) = excess
                /\ \A r \in S, q \in rows \ S : r.created_at <= q.created_at}

\* no connection yet
NoSession == [pc |-> "none", session_conf |-> NoConf, used |-> NoConf, numeric |-> NoConf]

\* the process at main.py:27, about to load the table of some file
BootCalls ==
    /\ fn = "load_mpn_table"
    /\ arg \in CsvFiles
    /\ MPN_TABLE = EmptyTable

Init ==
    /\ cap = 0 /\ capRes = NoRes /\ is_running = FALSE
    /\ latest_frame = NoFrame /\ frame_lock = 0 /\ thread = 0
    /\ handles = [h \in Handles |-> "unused"]
    /\ tpc = [h \in Handles |-> "unborn"]
    /\ tcap = [h \in Handles |-> 0]
    /\ tframe = [h \in Handles |-> NoFrame]
    /\ abandoned = {}
    /\ cpc = "idle" /\ got = NoFrame /\ lastCall = "none" /\ joinTimedOut = FALSE
    /\ \/ spc \in {"recv", "direct", "lossy"} /\ PostIdle
       \/ spc = "post" /\ PostCalls
       \/ spc = "boot" /\ BootCalls
       \/ spc = "peers" /\ PostIdle
       \/ spc = "db" /\ PostIdle
    /\ IF spc = "db" THEN db \in DbFiles ELSE db = NoDb
    /\ peers = [i \in Sessions |-> NoSession]
    /\ returned = Pending /\ looked_up = FALSE
    /\ session_conf = DEFAULT_CONF
    /\ sent = <<>>
    /\ exitCause = "none"
    /\ closeFailed = FALSE
    /\ stopDone = FALSE
    /\ lastWrite = NoFrame

\* ---------------------------------------------------------------- helpers
Used         == {h \in Handles : handles[h] # "unused"}
FreshHandle  == Cardinality(Used) + 1
IsOpened(h)  == handles[h] = "open"
IsAlive(t)   == tpc[t] \notin {"unborn", "done"}
Alive        == {t \in Handles : IsAlive(t)}

\* A frame just read differs from the frame in the slot at that moment:
\* seq tells the two apart.
FreshSeq     == IF latest_frame.seq = 1 THEN 2 ELSE 1

\* the capture objects a run may create
StartsAllowed == IF spc = "lossy" THEN MaxLossStarts ELSE MaxStarts

\* where the session loop goes on when the Camera method it called returns
AfterCall(s) ==
    CASE s = "ctl_stop" -> "recv"
      [] s = "fin_stop" -> "close"
      [] s = "poll_get" -> "poll_proc"
      [] OTHER          -> s

\* ------------------------------------------------ Camera (app/camera.py)

\* Camera.start(source, width, height), lines 18-32; ok: the device opens.
CameraStartAlways(ok, res) ==
    /\ FreshHandle <= StartsAllowed
    /\ cap' = FreshHandle
    /\ capRes' = res
    /\ handles' = [handles EXCEPT ![FreshHandle] = IF ok THEN "open" ELSE "failed"]
    /\ IF ok
       THEN /\ is_running' = TRUE
            /\ thread' = FreshHandle
            /\ tpc' = [tpc EXCEPT ![FreshHandle] = "check"]
            /\ lastCall' = "start"
       ELSE /\ lastCall' = "start_error"
            /\ UNCHANGED <<is_running, thread, tpc>>

CameraStart(ok, res) ==
    IF is_running
    THEN /\ lastCall' = "start_noop"
         /\ UNCHANGED <<cap, capRes, is_running, thread, handles, tpc>>
    ELSE /\ FreshHandle <= StartsAllowed
         /\ cap' = FreshHandle
         /\ capRes' = res
         /\ handles' = [handles EXCEPT ![FreshHandle] = IF ok THEN "open" ELSE "failed"]
         /\ IF ok
            THEN /\ is_running' = TRUE
                 /\ thread' = FreshHandle
                 /\ tpc' = [tpc EXCEPT ![FreshHandle] = "check"]
                 /\ lastCall' = "start"
            ELSE /\ lastCall' = "start_error"       \* raise RuntimeError
                 /\ UNCHANGED <<is_running, thread, tpc>>

\* Camera.stop(), lines 50-55: the early return, or the flag is cleared.
CameraStopAlways ==
    /\ is_running' = FALSE
    /\ cpc' = "stop_join"
    /\ lastCall' = "none"
    /\ UNCHANGED joinTimedOut

CameraStopEnter ==
    IF ~is_running
    THEN /\ cpc' = "idle"
         /\ lastCall' = "stop_noop"
         /\ UNCHANGED <<is_running, joinTimedOut>>
    ELSE /\ is_running' = FALSE
         /\ cpc' = "stop_join"
         /\ lastCall' = "none"
         /\ UNCHANGED joinTimedOut

\* line 61: if self._thread is not None and self._thread.is_alive()
StopCheckThread ==
    /\ cpc = "stop_join"
    /\ cpc' = IF thread # 0 /\ IsAlive(thread) THEN "stop_joining" ELSE "stop_release"
    /\ UNCHANGED <<camVars, devVars, thrVars, got, lastCall, joinTimedOut, sessVars, histVars>>
    /\ UNCHANGED postVars

\* line 62: join(timeout=2.0) returns because the thread has exited ...
JoinReturnsEarly(t) == TRUE

JoinReturns(t) == ~IsAlive(t)

\* ... or because 2 s passed: only a device read blocks the loop that long
\* (its other steps are an assignment under the lock and a 100 ms sleep).
JoinNeverTimesOut(t) == FALSE

JoinTimesOut(t) == tpc[t] = "reading"

StopJoinReturn ==
    /\ cpc = "stop_joining"
    /\ JoinReturns(thread)
    /\ thread' = 0                                   \* line 65
    /\ cpc' = "stop_release"
    /\ UNCHANGED <<cap, capRes, is_running, latest_frame, frame_lock, devVars, thrVars,
                   got, lastCall, joinTimedOut, sessVars, histVars>>
    /\ UNCHANGED postVars

StopJoinTimeout ==
    /\ cpc = "stop_joining"
    /\ JoinTimesOut(thread)
    /\ abandoned' = abandoned \cup {thread}          \* lines 63-64: warning only
    /\ joinTimedOut' = TRUE
    /\ thread' = 0                                   \* line 65
    /\ cpc' = "stop_release"
    /\ UNCHANGED <<cap, capRes, is_running, latest_frame, frame_lock, devVars,
                   tpc, tcap, tframe, got, lastCall, sessVars, histVars>>
    /\ UNCHANGED postVars

\* line 68: self.cap.release()
StopRelease ==
    /\ cpc = "stop_release"
    /\ IF cap # 0
       THEN /\ handles' = [handles EXCEPT ![cap] = "released"]
            /\ cpc' = "stop_unset"
       ELSE /\ cpc' = "stop_clear"
            /\ UNCHANGED handles
    /\ UNCHANGED <<camVars, thrVars, got, lastCall, joinTimedOut, sessVars, histVars>>
    /\ UNCHANGED postVars

\* line 69: self.cap = None
StopUnset ==
    /\ cpc = "stop_unset"
    /\ cap' = 0
    /\ capRes' = NoRes
    /\ cpc' = "stop_clear"
    /\ UNCHANGED <<is_running, latest_frame, frame_lock, thread, devVars, thrVars,
                   got, lastCall, joinTimedOut, sessVars, histVars>>
    /\ UNCHANGED postVars

\* Lock.acquire: blocks until the lock is free
NoLock == TRUE

LockFree == frame_lock = 0

\* line 72: with self._frame_lock
StopClearAcquire ==
    /\ cpc = "stop_clear"
    /\ LockFree
    /\ frame_lock' = Caller
    /\ cpc' = "stop_clearing"
    /\ UNCHANGED <<cap, capRes, is_running, latest_frame, thread, devVars, thrVars,
                   got, lastCall, joinTimedOut, sessVars, histVars>>
    /\ UNCHANGED postVars

\* line 73: self._latest_frame = None; the lock is left and stop() returns
StopClear ==
    /\ cpc = "stop_clearing"
    /\ latest_frame' = NoFrame
    /\ frame_lock' = 0
    /\ cpc' = "idle"
    /\ lastCall' = "stop"
    /\ spc' = AfterCall(spc)
    /\ stopDone' = TRUE
    /\ lastWrite' = NoFrame
    /\ joinTimedOut' = FALSE
    /\ UNCHANGED <<cap, capRes, is_running, thread, devVars, thrVars, got,
                   session_conf, sent, exitCause, closeFailed>>
    /\ UNCHANGED postVars

\* Camera.get_frame(), lines 45-48
GetAcquire ==
    /\ cpc = "get_acquire"
    /\ LockFree
    /\ frame_lock' = Caller
    /\ cpc' = "get_locked"
    /\ UNCHANGED <<cap, capRes, is_running, latest_frame, thread, devVars, thrVars,
                   got, lastCall, joinTimedOut, sessVars, histVars>>
    /\ UNCHANGED postVars

GetRead ==
    /\ cpc = "get_locked"
    /\ got' = latest_frame
    /\ frame_lock' = 0
    /\ cpc' = "idle"
    /\ lastCall' = "get_frame"
    /\ spc' = AfterCall(spc)
    /\ UNCHANGED <<cap, capRes, is_running, latest_frame, thread, devVars, thrVars,
                   joinTimedOut, session_conf, sent, exitCause, closeFailed, histVars>>
    /\ UNCHANGED postVars

\* ------------------------------------ Camera._capture_loop, lines 34-43

\* lines 35-36: while self.is_running and self.cap.isOpened(), then
\* self.cap.read() is called; after a failed read, when time.sleep(0.1)
\* (line 43) has returned. The condition and the call are one step: between
\* them only a stop() that has given up joining this thread can release or
\* unset self.cap, and then the thread ends (AttributeError on None) or its
\* read fails at once, which a read caught by the release also can.
ThreadCheck(t) ==
    /\ tpc[t] \in {"check", "sleep"}
    /\ IF is_running /\ cap # 0 /\ IsOpened(cap)
       THEN /\ tpc' = [tpc EXCEPT ![t] = "reading"]
            /\ tcap' = [tcap EXCEPT ![t] = cap]
            /\ UNCHANGED abandoned
       ELSE /\ tpc' = [tpc EXCEPT ![t] = "done"]
            /\ abandoned' = abandoned \ {t}
            /\ UNCHANGED tcap
    /\ UNCHANGED <<camVars, devVars, tframe, callVars, sessVars, histVars>>
    /\ UNCHANGED postVars

\* line 36: the device read returns. On an open device it delivers a frame or
\* fails; on a capture released while the read was in progress (cv2 gives no
\* guarantee) either outcome is possible.
ThreadReadReturn(t, ret) ==
    /\ tpc[t] = "reading"
    /\ IF ret
       THEN /\ tframe' = [tframe EXCEPT ![t] = [dev |-> tcap[t], seq |-> FreshSeq]]
            /\ tpc' = [tpc EXCEPT ![t] = "acquire"]
       ELSE /\ tpc' = [tpc EXCEPT ![t] = "sleep"]
            /\ UNCHANGED tframe
    /\ tcap' = [tcap EXCEPT ![t] = 0]
    /\ UNCHANGED <<camVars, handles, abandoned, callVars, sessVars, histVars>>
    /\ UNCHANGED postVars

\* line 40: with self._frame_lock
ThreadAcquire(t) ==
    /\ tpc[t] = "acquire"
    /\ LockFree
    /\ frame_lock' = t
    /\ tpc' = [tpc EXCEPT ![t] = "locked"]
    /\ UNCHANGED <<cap, capRes, is_running, latest_frame, thread, devVars,
                   tcap, tframe, abandoned, callVars, sessVars, histVars>>
    /\ UNCHANGED postVars

\* line 41: self._latest_frame = frame
StoreIfEmpty(slot, f) == IF slot = NoFrame THEN f ELSE slot

Store(slot, f) == f

ThreadWriteKeepsLock(t) ==
    /\ tpc[t] = "locked"
    /\ latest_frame' = Store(latest_frame, tframe[t])
    /\ lastWrite' = tframe[t]
    /\ stopDone' = IF t = thread THEN FALSE ELSE stopDone
    /\ tframe' = [tframe EXCEPT ![t] = NoFrame]
    /\ tpc' = [tpc EXCEPT ![t] = "check"]
    /\ UNCHANGED <<cap, capRes, is_running, thread, devVars, tcap, abandoned,
                   callVars, sessVars, frame_lock>>
    /\ UNCHANGED postVars

ThreadWrite(t) ==
    /\ tpc[t] = "locked"
    /\ latest_frame' = Store(latest_frame, tframe[t])
    /\ lastWrite' = tframe[t]
    /\ stopDone' = IF t = thread THEN FALSE ELSE stopDone
    /\ frame_lock' = 0
    /\ tframe' = [tframe EXCEPT ![t] = NoFrame]
    /\ tpc' = [tpc EXCEPT ![t] = "check"]
    /\ UNCHANGED <<cap, capRes, is_running, thread, devVars, tcap, abandoned,
                   callVars, sessVars>>
    /\ UNCHANGED postVars

\* line 35: self.cap.isOpened() becomes false under a running camera (the
\* device is unplugged, its driver fails): the one way the loop's second
\* condition ends it. Explored for a Camera called directly.
DeviceLost(h) ==
    /\ spc = "lossy"
    /\ handles[h] = "open"
    /\ handles' = [handles EXCEPT ![h] = "lost"]
    /\ UNCHANGED <<camVars, thrVars, callVars, sessVars, histVars>>
    /\ UNCHANGED postVars

ThreadStep(t) ==
    \/ ThreadCheck(t)
    \/ \E ret \in BOOLEAN : ThreadReadReturn(t, ret)
    \/ ThreadAcquire(t)
    \/ ThreadWrite(t)

\* the steps of a Camera method between its call and its return
CameraStep ==
    \/ StopCheckThread
    \/ StopJoinReturn
    \/ StopJoinTimeout
    \/ StopRelease
    \/ StopUnset
    \/ StopClearAcquire
    \/ StopClear
    \/ GetAcquire
    \/ GetRead

\* --------------------- websocket_endpoint (app/api.py, lines 208-311)

InLoop == spc = "recv" /\ cpc = "idle"

\* an operation that calls no Camera method
NoCall ==
    /\ lastCall' = "none"
    /\ UNCHANGED <<cpc, got, joinTimedOut>>

\* leaving the loop for the finally clause
Leave(cause) ==
    /\ spc' = "fin"
    /\ exitCause' = cause
    /\ sent' = <<>>
    /\ UNCHANGED <<session_conf, closeFailed>>

\* an event handled without an answer; the loop goes on
Handled ==
    /\ sent' = <<>>
    /\ UNCHANGED <<spc, session_conf, exitCause, closeFailed>>

\* lines 219-220: a websocket.disconnect event breaks the loop
RecvDisconnect ==
    /\ InLoop
    /\ Leave("disconnect")
    /\ NoCall
    /\ UNCHANGED <<camVars, devVars, thrVars, histVars>>
    /\ UNCHANGED postVars

\* line 217: receive() raises (WebSocketDisconnect, or anything else), lines 300-304
RecvRaises ==
    /\ InLoop
    /\ Leave("error")
    /\ NoCall
    /\ UNCHANGED <<camVars, devVars, thrVars, histVars>>
    /\ UNCHANGED postVars

\* lines 225-239: a binary payload is processed and answered
RecvBytesAnswersTwice ==
    /\ InLoop
    /\ sent' = <<"client", "client">>
    /\ UNCHANGED <<spc, session_conf, exitCause, closeFailed>>
    /\ NoCall
    /\ UNCHANGED <<camVars, devVars, thrVars, histVars>>
    /\ UNCHANGED postVars

RecvBytesOk ==
    /\ InLoop
    /\ sent' = <<"client">>
    /\ UNCHANGED <<spc, session_conf, exitCause, closeFailed>>
    /\ NoCall
    /\ UNCHANGED <<camVars, devVars, thrVars, histVars>>
    /\ UNCHANGED postVars

\* lines 227-231: run_inference_with_count raises (Image.open on bytes that are
\* no image, or the detector); only asyncio.TimeoutError is caught inside the loop
RecvBytesError ==
    /\ InLoop
    /\ Leave("error")
    /\ NoCall
    /\ UNCHANGED <<camVars, devVars, thrVars, histVars>>
    /\ UNCHANGED postVars

\* line 233: send_json raises
RecvBytesSendError ==
    /\ InLoop
    /\ Leave("error")
    /\ NoCall
    /\ UNCHANGED <<camVars, devVars, thrVars, histVars>>
    /\ UNCHANGED postVars

\* line 245: json.loads raises, or msg is no object (msg.get raises)
CtlMalformed ==
    /\ InLoop
    /\ Leave("error")
    /\ NoCall
    /\ UNCHANGED <<camVars, devVars, thrVars, histVars>>
    /\ UNCHANGED postVars

\* the resolution field of a start_server_stream message: absent, a string,
\* or a JSON value of another type (a number, say)
SampleStrings ==
    { <<"3", "2", "0", "x", "2", "4", "0">>,         \* "320x240"
      <<"a", "b", "c", "x">>,                        \* "abcx"
      <<"6", "4", "0">>,                             \* "640"
      <<"1", "x", "2", "x", "3">> }                  \* "1x2x3"

ResolutionFields ==
    {[type |-> "missing", chars |-> <<>>], [type |-> "number", chars |-> <<>>]}
        \cup {[type |-> "str", chars |-> s] : s \in SampleStrings}

\* line 249: msg.get("resolution", "640x480")
ResolutionOf(field) ==
    IF field.type = "missing" THEN <<"6", "4", "0", "x", "4", "8", "0">> ELSE field.chars

\* lines 247-257: start_server_stream; resolution.split of a value that is no
\* string raises AttributeError, which nothing inside the loop catches
CtlStart(ok, field) ==
    /\ InLoop
    /\ IF is_running
       THEN /\ Handled
            /\ lastCall' = "none"
            /\ UNCHANGED <<cap, capRes, is_running, thread, handles, tpc>>
       ELSE IF field.type = "number"
            THEN /\ Leave("error")
                 /\ lastCall' = "none"
                 /\ UNCHANGED <<cap, capRes, is_running, thread, handles, tpc>>
            ELSE /\ CameraStart(ok, ParseResolution(ResolutionOf(field)))
                 /\ IF ok THEN Handled ELSE Leave("error")
    /\ UNCHANGED <<latest_frame, frame_lock, tcap, tframe, abandoned,
                   cpc, got, joinTimedOut, histVars>>
    /\ UNCHANGED postVars

\* lines 259-260: stop_server_stream
CtlStop ==
    /\ InLoop
    /\ CameraStopEnter
    /\ spc' = IF is_running THEN "ctl_stop" ELSE "recv"
    /\ sent' = <<>>
    /\ UNCHANGED <<cap, capRes, latest_frame, frame_lock, thread, devVars, thrVars, got,
                   session_conf, exitCause, closeFailed, histVars>>
    /\ UNCHANGED postVars

\* lines 262-266: set_conf; float() of a missing value is float(0.4), of an
\* invalid one raises TypeError or ValueError, which is caught
CtlSetConf(kind, v) ==
    /\ InLoop
    /\ session_conf' = CASE kind = "number"  -> v
                         [] kind = "missing" -> DEFAULT_CONF
                         [] OTHER            -> session_conf
    /\ sent' = <<>>
    /\ UNCHANGED <<spc, exitCause, closeFailed>>
    /\ NoCall
    /\ UNCHANGED <<camVars, devVars, thrVars, histVars>>
    /\ UNCHANGED postVars

\* lines 244-266: a message with another action, or with none, does nothing
CtlOther ==
    /\ InLoop
    /\ Handled
    /\ NoCall
    /\ UNCHANGED <<camVars, devVars, thrVars, histVars>>
    /\ UNCHANGED postVars

\* lines 268-273: receive timed out; nothing to do unless the camera runs
PollTimeout ==
    /\ InLoop
    /\ IF ~is_running
       THEN UNCHANGED <<spc, cpc>>
       ELSE /\ spc' = "poll_get"                     \* line 275: camera.get_frame()
            /\ cpc' = "get_acquire"
    /\ sent' = <<>>
    /\ lastCall' = "none"
    /\ UNCHANGED <<camVars, devVars, thrVars, got, joinTimedOut,
                   session_conf, exitCause, closeFailed, histVars>>
    /\ UNCHANGED postVars

\* lines 276-281: no frame yet, or imencode fails: continue
PollSkip ==
    /\ spc = "poll_proc"
    /\ spc' = "recv"
    /\ got' = NoFrame
    /\ lastCall' = "none"
    /\ UNCHANGED <<session_conf, sent, exitCause, closeFailed>>
    /\ UNCHANGED <<camVars, devVars, thrVars, cpc, joinTimedOut, histVars>>
    /\ UNCHANGED postVars

\* lines 283-298: the frame is processed and answered
PollSendsWithoutFrame ==
    /\ spc = "poll_proc"
    /\ sent' = Append(sent, "server")
    /\ spc' = "recv"
    /\ got' = NoFrame
    /\ lastCall' = "none"
    /\ UNCHANGED <<session_conf, exitCause, closeFailed>>
    /\ UNCHANGED <<camVars, devVars, thrVars, cpc, joinTimedOut, histVars>>
    /\ UNCHANGED postVars

PollSendOk ==
    /\ spc = "poll_proc"
    /\ got # NoFrame
    /\ sent' = Append(sent, "server")
    /\ spc' = "recv"
    /\ got' = NoFrame
    /\ lastCall' = "none"
    /\ UNCHANGED <<session_conf, exitCause, closeFailed>>
    /\ UNCHANGED <<camVars, devVars, thrVars, cpc, joinTimedOut, histVars>>
    /\ UNCHANGED postVars

\* lines 284-288: run_inference_with_count raises inside the except clause
PollFrameError ==
    /\ spc = "poll_proc"
    /\ got # NoFrame
    /\ Leave("error")
    /\ got' = NoFrame
    /\ lastCall' = "none"
    /\ UNCHANGED <<camVars, devVars, thrVars, cpc, joinTimedOut, histVars>>
    /\ UNCHANGED postVars

\* line 290: send_json raises
PollSendError ==
    /\ spc = "poll_proc"
    /\ got # NoFrame
    /\ Leave("error")
    /\ got' = NoFrame
    /\ lastCall' = "none"
    /\ UNCHANGED <<camVars, devVars, thrVars, cpc, joinTimedOut, histVars>>
    /\ UNCHANGED postVars

\* lines 306-307: finally: camera.stop()
FinallySkipsStop ==
    /\ spc = "fin"
    /\ spc' = "close"
    /\ UNCHANGED <<camVars, devVars, thrVars, callVars, histVars,
                   session_conf, sent, exitCause, closeFailed>>
    /\ UNCHANGED postVars

Finally ==
    /\ spc = "fin"
    /\ CameraStopEnter
    /\ spc' = IF is_running THEN "fin_stop" ELSE "close"
    /\ UNCHANGED <<cap, capRes, latest_frame, frame_lock, thread, devVars, thrVars, got,
                   session_conf, sent, exitCause, closeFailed, histVars>>
    /\ UNCHANGED postVars

\* lines 308-311: websocket.close(); an exception is swallowed
Close(ok) ==
    /\ spc = "close"
    /\ spc' = "closed"
    /\ closeFailed' = ~ok
    /\ UNCHANGED <<session_conf, sent, exitCause>>
    /\ UNCHANGED <<camVars, devVars, thrVars, callVars, histVars>>
    /\ UNCHANGED postVars

SessionStep ==
    \/ RecvDisconnect
    \/ RecvRaises
    \/ RecvBytesOk
    \/ RecvBytesError
    \/ RecvBytesSendError
    \/ CtlMalformed
    \/ \E ok \in BOOLEAN, field \in ResolutionFields : CtlStart(ok, field)
    \/ CtlStop
    \/ \E kind \in {"number", "missing", "invalid"}, v \in ConfValues : CtlSetConf(kind, v)
    \/ CtlOther
    \/ PollTimeout
    \/ PollSkip
    \/ PollSendOk
    \/ PollFrameError
    \/ PollSendError
    \/ Finally
    \/ \E ok \in BOOLEAN : Close(ok)

\* ------------------------------ the Camera's methods called one after another
\* start() with its default width and height (line 18)
DirectStart(ok) ==
    /\ spc \in {"direct", "lossy"} /\ cpc = "idle"
    /\ CameraStart(ok, DefaultRes)
    /\ UNCHANGED <<latest_frame, frame_lock, tcap, tframe, abandoned,
                   cpc, got, joinTimedOut, sessVars, histVars>>
    /\ UNCHANGED postVars

DirectStop ==
    /\ spc \in {"direct", "lossy"} /\ cpc = "idle"
    /\ CameraStopEnter
    /\ UNCHANGED <<cap, capRes, latest_frame, frame_lock, thread, devVars, thrVars, got,
                   sessVars, histVars>>
    /\ UNCHANGED postVars

DirectGet ==
    /\ spc \in {"direct", "lossy"} /\ cpc = "idle"
    /\ cpc' = "get_acquire"
    /\ lastCall' = "none"
    /\ got' = NoFrame
    /\ UNCHANGED <<camVars, devVars, thrVars, joinTimedOut, sessVars, histVars>>
    /\ UNCHANGED postVars

DirectStep ==
    \/ \E ok \in BOOLEAN : DirectStart(ok)
    \/ DirectStop
    \/ DirectGet

\* ------------------- the functions of the pipeline, each called on its own
Rest == <<camVars, devVars, thrVars, callVars, sessVars, histVars, peers, db>>

\* api.py:227-239 and 284-296, from the detections on
CallFrame(mode) ==
    /\ spc = "post" /\ returned = Pending
    /\ fn = (IF mode = "client" THEN "push_frame" ELSE "poll_frame")
    /\ LET r == ResultMessage(MPN_TABLE, mode, arg)
       IN  /\ returned' = [raised |-> r.raised, value |-> r.value]
           /\ looked_up' = r.calls
    /\ UNCHANGED <<MPN_TABLE, fn, arg, Rest>>

CallDetectionsToTubes ==
    /\ spc = "post" /\ returned = Pending
    /\ fn = "detections_to_tubes"
    /\ returned' = DetectionsToTubes(arg)
    /\ UNCHANGED <<MPN_TABLE, fn, arg, looked_up, Rest>>

CallTubesToXyz ==
    /\ spc = "post" /\ returned = Pending
    /\ fn = "tubes_to_xyz"
    /\ returned' = Return(TubesToXyz(arg))
    /\ UNCHANGED <<MPN_TABLE, fn, arg, looked_up, Rest>>

CallParseResolution ==
    /\ spc = "post" /\ returned = Pending
    /\ fn = "parse_resolution"
    /\ returned' = Return(ParseResolution(arg))
    /\ UNCHANGED <<MPN_TABLE, fn, arg, looked_up, Rest>>

\* inference.py:139
CallSuppressDuplicateTubes ==
    /\ spc = "post" /\ returned = Pending
    /\ fn = "suppress_duplicate_tubes"
    /\ returned' = Return(SuppressDuplicateTubes(arg))
    /\ UNCHANGED <<MPN_TABLE, fn, arg, looked_up, Rest>>

\* lookup_mpn(x, y, z), called any number of times
CallLookupMpn ==
    /\ spc = "post"
    /\ fn = "lookup_mpn"
    /\ returned' = Return(LookupMpn(MPN_TABLE, arg[1], arg[2], arg[3]))
    /\ looked_up' = TRUE
    /\ UNCHANGED <<MPN_TABLE, fn, arg, Rest>>

\* run_inference_with_count(image_bytes, conf) up to the call of the
\* detector, inference.py:115-124: the value is the conf the detector gets
CallRunInference ==
    /\ spc = "post" /\ returned = Pending
    /\ fn = "run_inference_with_count"
    /\ returned' = Return(Clamp(arg))
    /\ UNCHANGED <<MPN_TABLE, fn, arg, looked_up, Rest>>

PostStep ==
    \/ CallSuppressDuplicateTubes
    \/ CallRunInference
    \/ CallLookupMpn
    \/ \E mode \in {"client", "server"} : CallFrame(mode)
    \/ CallDetectionsToTubes
    \/ CallTubesToXyz
    \/ CallParseResolution

\* ------------------------------------------- two sessions side by side
PeerRest == <<camVars, devVars, thrVars, callVars, sessVars, histVars,
              MPN_TABLE, fn, arg, returned, looked_up, db>>

\* api.py:208-212: a connection is accepted (a first one, or one after an
\* earlier one has ended); session_conf is a local of this call
PeerAccept(i) ==
    /\ spc = "peers"
    /\ peers[i].pc \in {"none", "closed"}
    /\ peers' = [peers EXCEPT ![i] =
                    [pc |-> "recv", session_conf |-> DEFAULT_CONF, used |-> NoConf,
                     numeric |-> DEFAULT_CONF]]
    /\ UNCHANGED PeerRest

\* api.py:262-266: set_conf, as written, but into a variable all calls share
PeerSetConfShared(i, kind, v) ==
    /\ spc = "peers"
    /\ peers[i].pc = "recv"
    /\ peers' = [j \in Sessions |->
                    IF peers[j].pc # "recv" THEN peers[j]
                    ELSE [peers[j] EXCEPT !.session_conf =
                            CASE kind = "number"  -> v
                              [] kind = "missing" -> DEFAULT_CONF
                              [] OTHER            -> @,
                                          !.numeric =
                            IF j = i /\ kind = "number" THEN v ELSE @]]
    /\ UNCHANGED PeerRest

\* api.py:262-266: set_conf
PeerSetConf(i, kind, v) ==
    /\ spc = "peers"
    /\ peers[i].pc = "recv"
    /\ peers' = [peers EXCEPT ![i].session_conf =
                    CASE kind = "number"  -> v
                      [] kind = "missing" -> DEFAULT_CONF
                      [] OTHER            -> @,
                             ![i].numeric = IF kind = "number" THEN v ELSE @]
    /\ UNCHANGED PeerRest

\* api.py:228 and 285: a pushed or a polled frame is processed
PeerInvoke(i, mode) ==
    /\ spc = "peers"
    /\ peers[i].pc = "recv"
    /\ peers' = [peers EXCEPT ![i].used = peers[i].session_conf]
    /\ UNCHANGED PeerRest

\* api.py:219-220 and 300-311: the connection ends
PeerClose(i) ==
    /\ spc = "peers"
    /\ peers[i].pc = "recv"
    /\ peers' = [peers EXCEPT ![i].pc = "closed"]
    /\ UNCHANGED PeerRest

PeerStep ==
    \E i \in Sessions :
        \/ PeerAccept(i)
        \/ \E kind \in {"number", "missing", "invalid"}, v \in ConfValues : PeerSetConf(i, kind, v)
        \/ \E mode \in {"client", "server"} : PeerInvoke(i, mode)
        \/ PeerClose(i)

\* -------------------------------------------- the predictions table
DbRest == <<camVars, devVars, thrVars, callVars, sessVars, histVars,
            MPN_TABLE, fn, arg, returned, looked_up, peers>>

\* init_db(), database.py:81-100: the table is created if it is not there,
\* then pruned
InitDb(S) ==
    /\ spc = "db"
    /\ db.pc = "file"
    /\ S \in Pruned(db.rows)
    /\ db' = [db EXCEPT !.pc = "ready", !.rows = db.rows \ S,
                        !.last = [op |-> "init_db", id |-> 0, removed |-> S]]
    /\ UNCHANGED DbRest

\* save_prediction(...), queries.py:35-98: the image is written, the row
\* inserted with the next id and the time of the clock, and the table pruned.
\* The handlers that call it are coroutines of one event loop and it awaits
\* nothing: no other call runs between its insert and its pruning.
SavePrediction(t, S) ==
    /\ spc = "db"
    /\ db.pc = "ready"
    /\ db.seq <= MAX_HISTORY + 1 + MaxSaves
    /\ LET inserted == db.rows \cup {[id |-> db.seq, created_at |-> t]}
       IN  /\ S \in Pruned(inserted)
           /\ db' = [db EXCEPT !.rows = inserted \ S, !.seq = db.seq + 1,
                               !.last = [op |-> "save", id |-> db.seq, removed |-> S]]
    /\ UNCHANGED DbRest

\* queries.py:62-66: the image file cannot be written; nothing is inserted
SavePredictionWriteFails ==
    /\ spc = "db"
    /\ db.pc = "ready"
    /\ db' = [db EXCEPT !.last = [op |-> "save_error", id |-> 0, removed |-> {}]]
    /\ UNCHANGED DbRest

\* delete_prediction(record_id), queries.py:160-198
DeletePrediction(record_id) ==
    /\ spc = "db"
    /\ db.pc = "ready"
    /\ db' = [db EXCEPT !.rows = {r \in db.rows : r.id # record_id},
                        !.last = [op |-> "delete", id |-> record_id,
                                  removed |-> {r \in db.rows : r.id = record_id}]]
    /\ UNCHANGED DbRest

DbStep ==
    \/ \E S \in SUBSET db.rows : InitDb(S)
    \/ \E t \in Times :
            \E S \in SUBSET (db.rows \cup {[id |-> db.seq, created_at |-> t]}) :
                SavePrediction(t, S)
    \/ SavePredictionWriteFails
    \/ \E record_id \in 1..(MAX_HISTORY + 1 + MaxSaves) : DeletePrediction(record_id)

\* ------------------------------------------------------- process startup
Rest0 == <<camVars, devVars, thrVars, callVars, session_conf, sent, exitCause,
           closeFailed, histVars, peers, db>>

\* main.py:27: load_mpn_table(); an exception ends the import of app.main
BootLoad ==
    /\ spc = "boot"
    /\ LET loaded == LoadMpnTable(arg)
       IN  /\ MPN_TABLE' = loaded.table
           /\ returned' = Raise(loaded.raised)
           /\ spc' = IF loaded.raised = None THEN "init_db" ELSE "aborted"
    /\ UNCHANGED <<fn, arg, looked_up, Rest0>>

\* main.py:31: init_db()
BootInitDb(ok) ==
    /\ spc = "init_db"
    /\ spc' = IF ok THEN "mount" ELSE "aborted"
    /\ UNCHANGED <<postVars, Rest0>>

\* main.py:41-45: the two static mounts
BootMount(ok) ==
    /\ spc = "mount"
    /\ spc' = IF ok THEN "include" ELSE "aborted"
    /\ UNCHANGED <<postVars, Rest0>>

\* main.py:52: app.include_router(api.router), after which requests and
\* sessions are served
BootInclude ==
    /\ spc = "include"
    /\ spc' = "serving"
    /\ UNCHANGED <<postVars, Rest0>>

\* the counts of the frames served: those of the patterns the files have,
\* and those of one they have not
ServedCounts == {<<0, 0, 0>>, <<3, 0, 0>>, <<1, 0, 0>>}

\* a request or a session frame served: its lookup in the table, api.py:49
BootServe(x, y, z) ==
    /\ spc = "serving"
    /\ returned' = Return(LookupMpn(MPN_TABLE, x, y, z))
    /\ looked_up' = TRUE
    /\ UNCHANGED <<MPN_TABLE, fn, arg, spc, Rest0>>

BootStep ==
    \/ BootLoad
    \/ \E ok \in BOOLEAN : BootInitDb(ok)
    \/ \E ok \in BOOLEAN : BootMount(ok)
    \/ BootInclude
    \/ \E c \in ServedCounts : BootServe(c[1], c[2], c[3])

\* ------------------------------------------------------------ specification
Next ==
    \/ SessionStep
    \/ DirectStep
    \/ PostStep
    \/ BootStep
    \/ PeerStep
    \/ DbStep
    \/ CameraStep
    \/ \E t \in Handles : ThreadStep(t)
    \/ \E h \in Handles : DeviceLost(h)

Spec == Init /\ [][Next]_vars

\* The caller's thread and the capture threads are scheduled; a device read
\* (ThreadReadReturn) may block for ever, and the client may stay silent.
NonBlocking(t) ==
    \/ ThreadCheck(t)
    \/ ThreadAcquire(t)
    \/ ThreadWrite(t)

\* The Camera alone, its methods called one after another.
CameraInit == Init /\ spc = "direct"

CameraNext ==
    \/ DirectStep
    \/ CameraStep
    \/ \E t \in Handles : ThreadStep(t)

CameraSpec == CameraInit /\ [][CameraNext]_vars

\* The Camera alone, with a device that can be lost while it is open.
LossyInit == Init /\ spc = "lossy"

LossyNext ==
    \/ CameraNext
    \/ \E h \in Handles : DeviceLost(h)

LossySpec == LossyInit /\ [][LossyNext]_vars

\* One session and its camera. The loop always goes on (receive returns an
\* event or times out), and a frame whose processing is tried again and
\* again is answered at some time; a Camera method waiting for the frame lock
\* gets it at some time, the capture thread holding it for one assignment
\* only. Which event comes next is the client's choice, so no timeout is ever
\* owed to the loop.
SessionInit == Init /\ spc = "recv"

SessionNext ==
    \/ SessionStep
    \/ CameraStep
    \/ \E t \in Handles : ThreadStep(t)

SessionSpec == SessionInit /\ [][SessionNext]_vars

FairSessionSpec ==
    /\ SessionSpec
    /\ WF_vars(SessionStep)
    /\ SF_vars(PollSendOk)
    /\ SF_vars(CameraStep)
    /\ \A t \in Handles : WF_vars(NonBlocking(t))

\* The predictions table alone.
DbInit == Init /\ spc = "db"

DbSpec == DbInit /\ [][DbStep]_vars

\* Two sessions alone.
PeerInit == Init /\ spc = "peers"

PeerSpec == PeerInit /\ [][PeerStep]_vars

\* The start of the process alone.
BootInit == Init /\ spc = "boot"

BootSpec == BootInit /\ [][BootStep]_vars

\* The functions of the pipeline alone.
PostInit == Init /\ spc = "post"

PostSpec == PostInit /\ [][PostStep]_vars

FairCameraSpec ==
    /\ CameraSpec
    /\ WF_vars(CameraStep)
    /\ \A t \in Handles : WF_vars(NonBlocking(t))

\* ------------------------------------------------------------------ properties

HoldsDevice == cap # 0 /\ IsOpened(cap)
Unreleased  == cap # 0 /\ handles[cap] \in {"open", "lost"}

\* C1: on every way out of the session loop (disconnect event, exception from
\* receive, from handling a push frame, a control message or a poll tick)
\* Camera.stop() has run to its end before the connection is closed, so that
\* from then on the camera is not running and holds no open device (a capture
\* object that never opened may stay referenced); a failing close still ends
\* in Closed.
C1_TeardownBeforeClosed ==
    spc \in {"close", "closed"} =>
        /\ exitCause # "none"
        /\ cpc = "idle"
        /\ ~is_running
        /\ ~HoldsDevice
        /\ \A h \in Handles : ~IsOpened(h)

\* a session left by an exception while its camera ran, whose close failed
C1_Witness ==
    /\ spc = "closed"
    /\ exitCause = "error"
    /\ closeFailed
    /\ lastCall = "stop"
    /\ \E h \in Handles : handles[h] = "released"

\* C2: stop() clears the running flag, then joins the thread, then releases
\* the device, then clears the frame; when the join does not time out the
\* thread has exited before the release, and only a thread whose join timed
\* out is ever inside a device read on a released capture.
C2_StopOrder ==
    /\ cpc \in {"stop_join", "stop_joining", "stop_release"} =>
            ~is_running /\ Unreleased
    /\ cpc \in {"stop_unset", "stop_clear", "stop_clearing"} =>
            ~is_running /\ ~Unreleased
    /\ (cpc \in {"stop_release", "stop_unset", "stop_clear", "stop_clearing"} /\ ~joinTimedOut) =>
            Alive \subseteq abandoned
    /\ \A t \in Handles :
            (tpc[t] = "reading" /\ handles[tcap[t]] = "released") => t \in abandoned

\* the join has returned on an exited thread and the device is still to be released
C2_Witness ==
    /\ cpc = "stop_release"
    /\ ~joinTimedOut
    /\ thread = 0
    /\ HoldsDevice
    /\ tpc[cap] = "done"

GetReturned == lastCall = "get_frame" /\ cpc = "idle"

\* C3: once a stop() has completed, get_frame() returns None until the
\* capture thread of a later start() has written a frame.
C3_NoneAfterStop == (GetReturned /\ stopDone) => got = NoFrame

\* C4: after a stop and a start, get_frame() returns no frame that was read
\* from the device of an earlier start.
C4_NoStaleFrameAfterRestart ==
    (GetReturned /\ is_running /\ got # NoFrame) => got.dev = cap

StartCalled == (\E ok \in BOOLEAN : DirectStart(ok))
StartCommand == (\E ok \in BOOLEAN, field \in ResolutionFields : CtlStart(ok, field))

\* C5: Camera.start on a running camera, and a start_server_stream message
\* received while the camera runs, change nothing of the camera: the device,
\* its resolution, the thread reference and the set of capture threads stay.
C5_StartWhileRunningIsNoOp ==
    [][(is_running /\ (StartCalled \/ StartCommand)) =>
            UNCHANGED <<cap, capRes, is_running, thread, handles, tpc, latest_frame>>]_vars

\* start() has returned on a camera that was running
C5_Witness ==
    /\ lastCall = "start_noop"
    /\ is_running
    /\ HoldsDevice
    /\ Alive = {thread}

\* C6: Camera.stop() on a camera that is not running returns at once and
\* changes neither the flag, the device, the thread reference nor the frame.
C6_StopWhenNotRunningIsNoOp ==
    [][(~is_running /\ (DirectStop \/ CtlStop \/ Finally)) =>
            /\ cpc' = "idle"
            /\ UNCHANGED <<is_running, cap, capRes, thread, latest_frame, handles, tpc>>]_vars

\* a second stop() after a stop()
C6_Witness ==
    /\ lastCall = "stop_noop"
    /\ stopDone

InStop == cpc \in {"stop_join", "stop_joining", "stop_release", "stop_unset",
                   "stop_clear", "stop_clearing"}

StopReturned ==
    /\ cpc = "idle"
    /\ lastCall = "stop"
    /\ ~is_running
    /\ cap = 0
    /\ latest_frame = NoFrame
    /\ \A h \in Handles : ~IsOpened(h)

\* C7: every stop() returns, with the flag cleared, the device released and
\* the frame cleared, also when the capture thread never comes back from its
\* device read.
C7_StopTerminates == InStop ~> StopReturned

\* stop() has returned while the thread it gave up joining is still in its read
C7_Witness ==
    /\ cpc = "idle"
    /\ lastCall = "stop"
    /\ \E t \in abandoned : tpc[t] = "reading"

InCritical ==
    {t \in Handles : tpc[t] = "locked"}
        \cup (IF cpc \in {"get_locked", "stop_clearing"} THEN {Caller} ELSE {})

\* C8: the frame slot is written and read under one lock by one party at a
\* time, holds the frame of the last completed write (None if none since the
\* last clear), and that is what get_frame() returns.
C8_SingleSlotLastWriteWins ==
    /\ [](Cardinality(InCritical) <= 1)
    /\ [](latest_frame = lastWrite)
    /\ [][GetRead => got' = lastWrite]_vars

\* get_frame() has returned the second frame written, not the first
C8_Witness ==
    /\ GetReturned
    /\ got # NoFrame
    /\ got.seq = 2

\* C9: a start_server_stream whose device cannot be opened leaves the camera
\* not running and the session in its receive loop.
C9_OpenFailureKeepsSession ==
    [][(~is_running /\ \E field \in ResolutionFields :
                            field.type # "number" /\ CtlStart(FALSE, field)) =>
            (~is_running' /\ spc' = "recv")]_vars

\* C10: a frame that cannot be processed (push or poll) is skipped: threshold
\* and camera stay as they are and the session stays in its receive loop.
C10_FrameFailureContained ==
    [][(RecvBytesError \/ PollFrameError) =>
            (spc' = "recv" /\ UNCHANGED <<session_conf, cap, is_running>>)]_vars

\* a control message that is no JSON, no JSON object, or whose resolution is
\* no string
NumberField == [type |-> "number", chars |-> <<>>]
MalformedControl == CtlMalformed \/ (\E ok \in BOOLEAN : CtlStart(ok, NumberField))

\* C11: a malformed control message is ignored: the threshold and the camera
\* are unchanged, nothing is sent, and the session stays in its receive loop.
C11_MalformedControlIgnored ==
    [][MalformedControl =>
            (/\ spc' = "recv"
             /\ sent' = <<>>
             /\ UNCHANGED <<session_conf, cap, capRes, is_running, thread, handles>>)]_vars

\* C12: a set_conf whose value is missing or cannot be converted leaves the
\* threshold as it was, whatever it was.
C12_BadConfKeepsThreshold ==
    [][(\E kind \in {"missing", "invalid"}, v \in ConfValues : CtlSetConf(kind, v)) =>
            session_conf' = session_conf]_vars

\* what a resolution string stands for: W and H when it reads W, "x", H with
\* two integer literals and no other "x"; otherwise 640 and 480
XPositions(s) == {i \in 1..Len(s) : s[i] = "x"}
WellFormed(s) ==
    /\ Cardinality(XPositions(s)) = 1
    /\ \A i \in XPositions(s) :
            IsIntLiteral(SubSeq(s, 1, i - 1)) /\ IsIntLiteral(SubSeq(s, i + 1, Len(s)))
WidthHeight(s) ==
    IF WellFormed(s)
    THEN LET i == CHOOSE j \in XPositions(s) : TRUE
         IN  <<IntOf(SubSeq(s, 1, i - 1)), IntOf(SubSeq(s, i + 1, Len(s)))>>
    ELSE DefaultRes

\* C13: a start_server_stream received while the camera is not running calls
\* Camera.start with W and H when its resolution reads "WxH" and with 640 and
\* 480 when it does not (or is absent); parsing raises nothing, so that with
\* a device that opens the camera runs and the session stays in its loop.
C13_ResolutionFallback ==
    /\ [][\A ok \in BOOLEAN, field \in ResolutionFields :
            (~is_running /\ field.type # "number" /\ CtlStart(ok, field)) =>
                (/\ capRes' = WidthHeight(ResolutionOf(field))
                 /\ capRes' \in Resolutions
                 /\ lastCall' \in {"start", "start_error"}
                 /\ ok => (is_running' /\ spc' = "recv" /\ lastCall' = "start"))]_vars
    /\ []((fn = "parse_resolution" /\ returned.raised # "pending") =>
            (returned.raised = None /\ returned.value = WidthHeight(arg)))
    /\ [](WidthHeight(<<"3", "2", "0", "x", "2", "4", "0">>) = <<320, 240>>)

\* "ax" (no width, no height after the "x") has been parsed and has given
\* 640 by 480
C13_Witness ==
    /\ fn = "parse_resolution"
    /\ arg = <<"a", "x">>
    /\ returned.raised = None
    /\ returned.value = <<640, 480>>

Modes(msgs) == {msgs[i] : i \in 1..Len(msgs)}
BinaryPayload  == RecvBytesOk \/ RecvBytesError \/ RecvBytesSendError
ControlMessage ==
    \/ CtlMalformed
    \/ StartCommand
    \/ CtlStop
    \/ (\E kind \in {"number", "missing", "invalid"}, v \in ConfValues : CtlSetConf(kind, v))
    \/ CtlOther

\* C14: a binary payload processed successfully is answered by exactly one
\* message, of mode client, within the handling of that payload; a binary
\* payload never gives a message of mode server, and a control message gives
\* no message at all (not while its camera.stop() runs either).
C14_OneClientAnswerPerPayload ==
    /\ [][RecvBytesOk => (sent' = <<"client">> /\ spc' = "recv")]_vars
    /\ [][BinaryPayload => "server" \notin Modes(sent')]_vars
    /\ [][ControlMessage => sent' = <<>>]_vars
    /\ [](spc = "ctl_stop" => sent = <<>>)
    /\ []((fn = "push_frame" /\ returned.raised = None) => returned.value.mode = "client")

\* back in the loop after a binary payload, one message of mode client sent
C14_Witness ==
    /\ spc = "recv"
    /\ sent = <<"client">>
    /\ is_running

\* a message of mode server is sent
ServerSent == "server" \in Modes(sent') /\ sent' # sent

\* C15 (as amended): a message of mode server is sent only by the handling of
\* a receive timeout at which the camera was running and get_frame() gave a
\* frame, and at most one per timeout: exactly one when the frame is encoded,
\* processed and sent, none when the camera is not running, when there is no
\* frame yet, or when the frame cannot be encoded. While the camera is
\* stopped, and from a stop_server_stream on, none is sent.
C15_ServerOnlyOnPollWithFrame ==
    /\ [][ServerSent => (/\ spc = "poll_proc" /\ lastCall = "get_frame"
                         /\ got # NoFrame /\ is_running
                         /\ sent' = <<"server">>)]_vars
    /\ [][PollSendOk => sent' = <<"server">>]_vars
    /\ [][(PollTimeout /\ ~is_running) => (sent' = <<>> /\ spc' = "recv")]_vars
    /\ [][(PollSkip /\ got = NoFrame) => (sent' = <<>> /\ spc' = "recv")]_vars
    /\ []("server" \in Modes(sent) => is_running)

\* a polled frame has been answered by one message of mode server
C15_Witness ==
    /\ spc = "recv"
    /\ sent = <<"server">>
    /\ is_running
    /\ latest_frame # NoFrame

\* C15 (as stated): every receive timeout at which the camera is running and
\* get_frame() gave a frame sends exactly one message of mode server.
C15_OneServerMessagePerFrame ==
    [][(spc = "poll_proc" /\ got # NoFrame /\ PollSkip) => sent' = <<"server">>]_vars

\* C16: while the camera runs and has a frame, a message of mode server is
\* sent at some time, whatever the client sends in the meantime (unless the
\* camera is stopped or the session ends).
C16_PollNotStarved ==
    (spc = "recv" /\ is_running /\ latest_frame # NoFrame)
        ~> ("server" \in Modes(sent) \/ ~is_running \/ spc \in {"fin", "fin_stop", "close", "closed"})

\* a frame (pushed or polled) has been processed
FrameProcessed == fn \in {"push_frame", "poll_frame"} /\ returned.raised # "pending"
Positive(d)    == d.label = "Yellow_NoBubble"
Positives(detections, from, to) ==
    Cardinality({i \in from..to : i <= Len(detections) /\ Positive(detections[i])})

\* C17: a frame whose deduplicated detections are not exactly 9 gives a
\* message with tubes = [], pattern, mpn, ci_low and ci_high null and
\* total_tubes the number of detections, and no error; lookup_mpn is called
\* if and only if there are exactly 9.
C17_NoMpnUnlessNine ==
    FrameProcessed =>
        /\ returned.raised = None
        /\ returned.value.total_tubes = Len(arg)
        /\ looked_up <=> (Len(arg) = 9)
        /\ Len(arg) # 9 =>
                /\ returned.value.tubes = <<>>
                /\ returned.value.pattern = None
                /\ returned.value.mpn = None
                /\ returned.value.ci_low = None
                /\ returned.value.ci_high = None

\* a frame of 7 detections has been answered without MPN fields
C17_Witness ==
    /\ FrameProcessed
    /\ Len(arg) = 7
    /\ returned.raised = None
    /\ returned.value.total_tubes = 7
    /\ returned.value.tubes = <<>>
    /\ ~looked_up

\* the labels [pos, X, pos, X, X, X, X, X, X]
Example200 == [i \in 1..9 |-> [label |-> IF i \in {1, 3} THEN "Yellow_NoBubble"
                                                          ELSE "Yellow_Bubble"]]

\* C18: for exactly 9 detections, tubes[i] = 1 iff detection i is
\* Yellow_NoBubble, pattern is "P" followed by the numbers of positives among
\* the first, the middle and the last three, and when the table has that
\* pattern mpn, ci_low and ci_high are its row; the example of the claim gives
\* [1,0,1,0,0,0,0,0,0] and P200.
C18_NineTubesResolved ==
    (FrameProcessed /\ Len(arg) = 9) =>
        LET msg == returned.value
            key == PatternKey(Positives(arg, 1, 3), Positives(arg, 4, 6), Positives(arg, 7, 9))
        IN  /\ Len(msg.tubes) = 9
            /\ \A i \in 1..9 : (msg.tubes[i] = 1 <=> Positive(arg[i])) /\ msg.tubes[i] \in {0, 1}
            /\ msg.pattern = key
            /\ key \in DOMAIN MPN_TABLE =>
                    /\ msg.mpn = MPN_TABLE[key].mpn
                    /\ msg.ci_low = MPN_TABLE[key].low
                    /\ msg.ci_high = MPN_TABLE[key].high
            /\ arg = Example200 =>
                    /\ msg.tubes = <<1, 0, 1, 0, 0, 0, 0, 0, 0>>
                    /\ msg.pattern = "P200"

\* the example of the claim, resolved with a table that has P200
C18_Witness ==
    /\ FrameProcessed
    /\ arg = Example200
    /\ "P200" \in DOMAIN MPN_TABLE
    /\ returned.value.pattern = "P200"
    /\ returned.value.mpn = MPN_TABLE["P200"].mpn

\* C19: detections_to_tubes raises ValueError for every list whose length is
\* not 9 and returns 9 values, each 0 or 1, for every list of 9.
C19_TubeCountChecked ==
    (fn = "detections_to_tubes" /\ returned.raised # "pending") =>
        IF Len(arg) = 9
        THEN /\ returned.raised = None
             /\ Len(returned.value) = 9
             /\ \A i \in 1..9 : returned.value[i] \in {0, 1}
        ELSE returned.raised = "ValueError"

\* detections_to_tubes has raised on 10 detections
C19_Witness ==
    /\ fn = "detections_to_tubes"
    /\ Len(arg) = 10
    /\ returned.raised = "ValueError"

\* C20: for every vector of 9 values 0 or 1, tubes_to_xyz gives x, y and z in
\* 0..3 whose sum is the number of 1s of the vector.
C20_XyzCountsPositives ==
    (fn = "tubes_to_xyz" /\ returned.raised # "pending") =>
        LET xyz == returned.value
        IN  /\ Len(xyz) = 3
            /\ \A k \in 1..3 : xyz[k] \in 0..3
            /\ xyz[1] + xyz[2] + xyz[3] = Cardinality({i \in 1..9 : arg[i] = 1})

\* tubes_to_xyz has returned (3, 0, 2)
C20_Witness ==
    /\ fn = "tubes_to_xyz"
    /\ returned.raised = None
    /\ returned.value = <<3, 0, 2>>
    /\ arg = <<1, 1, 1, 0, 0, 0, 1, 0, 1>>

\* suppress_duplicate_tubes has returned
Suppressed == fn = "suppress_duplicate_tubes" /\ returned.raised = None

\* C21: suppress_duplicate_tubes applied to its own result gives that result.
C21_SuppressIdempotent ==
    Suppressed => SuppressDuplicateTubes(returned.value) = returned.value

\* C22: suppress_duplicate_tubes gives [] for [], and for a list of one
\* detection (of any width, zero included) a list of that one detection.
C22_SuppressEmptyAndSingle ==
    Suppressed =>
        /\ arg = <<>> => returned.value = <<>>
        /\ Len(arg) = 1 => returned.value = arg

\* one detection of zero width has been returned as it was
C22_Witness ==
    /\ Suppressed
    /\ Len(arg) = 1
    /\ arg[1].bbox[3] = arg[1].bbox[1]
    /\ returned.value = arg

\* the first of the detections of g that has the highest confidence of g
FirstBest(g) ==
    CHOOSE i \in 1..Len(g) :
        /\ \A j \in 1..Len(g) : g[j].confidence <= g[i].confidence
        /\ \A j \in 1..(i - 1) : g[j].confidence < g[i].confidence

RECURSIVE Concat(_)
Concat(gs) == IF gs = <<>> THEN <<>> ELSE Head(gs) \o Concat(Tail(gs))

\* C28: of the detections merged into one position the one kept has the
\* highest confidence, and of several with that confidence it is the
\* earliest in the sweep (a later detection replaces the kept one only if
\* its confidence is strictly higher); every detection of the input is kept
\* or merged into exactly one position.
C28_MergeKeepsHighestConfidence ==
    (Suppressed /\ arg # <<>>) =>
        LET sweep == SweepOf(arg)
        IN  /\ returned.value = sweep.filtered
            /\ Len(sweep.merged) = Len(sweep.filtered)
            /\ Concat(sweep.merged) = SortByLeft(arg)
            /\ \A k \in 1..Len(sweep.filtered) :
                    sweep.filtered[k] = sweep.merged[k][FirstBest(sweep.merged[k])]

\* three detections merged into one position: the second has the highest
\* confidence, the third has it too, and the second is the one kept
C28_Witness ==
    /\ Suppressed
    /\ Len(arg) = 3
    /\ Len(returned.value) = 1
    /\ LET g == SweepOf(arg).merged[1]
       IN  /\ Len(g) = 3
           /\ g[1].confidence < g[2].confidence
           /\ g[3].confidence = g[2].confidence
           /\ g[3] # g[2]
           /\ returned.value[1] = g[2]

\* C23: lookup_mpn leaves the table as it is and gives the same output when
\* called again with the same counts; it raises nothing; its pattern is
\* "P{x}{y}{z}", and mpn, low and high are null when the table has no such
\* pattern (and the row of the table when it has).
C23_LookupPure ==
    /\ [][CallLookupMpn =>
            (/\ MPN_TABLE' = MPN_TABLE
             /\ returned.raised # "pending" => returned' = returned)]_vars
    /\ []((fn = "lookup_mpn" /\ returned.raised # "pending") =>
            LET out == returned.value
                key == "P" \o ToString(arg[1]) \o ToString(arg[2]) \o ToString(arg[3])
            IN  /\ returned.raised = None
                /\ out.pattern = key
                /\ key \notin DOMAIN MPN_TABLE =>
                        (out.mpn = None /\ out.low = None /\ out.high = None)
                /\ key \in DOMAIN MPN_TABLE =>
                        (/\ out.mpn = MPN_TABLE[key].mpn
                         /\ out.low = MPN_TABLE[key].low
                         /\ out.high = MPN_TABLE[key].high))

\* a pattern that a table of some rows does not have has been looked up
C23_Witness ==
    /\ fn = "lookup_mpn"
    /\ looked_up
    /\ arg = <<0, 1, 3>>
    /\ MPN_TABLE = PartialTable
    /\ returned.value = [pattern |-> "P013", mpn |-> None, low |-> None, high |-> None]

\* the file named in the claim: missing, empty, lacking a required column,
\* or with a row that cannot be read or lacks a required field
Unparseable(file, row) ==
    \/ row.error
    \/ /\ row.cells # <<>>
       /\ \E c \in _REQUIRED_COLUMNS : \A i \in 1..Len(row.cells) : file.head[1][i] # c
BadFile(file) ==
    \/ ~file.exists
    \/ file.head = <<>>
    \/ \E c \in _REQUIRED_COLUMNS : \A i \in 1..Len(file.head[1]) : file.head[1][i] # c
    \/ \E k \in 1..Len(file.rows) : Unparseable(file, file.rows[k])

\* the whole table of a good file: for each pattern of its rows, the fields
\* of the last row of that pattern
FieldOf(file, row, column) ==
    Strip(row.cells[CHOOSE i \in 1..Len(file.head[1]) : file.head[1][i] = column])
DataRows(file) == {k \in 1..Len(file.rows) : file.rows[k].cells # <<>>}
WholeTable(file) ==
    [p \in {FieldOf(file, file.rows[k], "pattern") : k \in DataRows(file)} |->
        LET last == CHOOSE k \in DataRows(file) :
                        /\ FieldOf(file, file.rows[k], "pattern") = p
                        /\ \A j \in DataRows(file) :
                              FieldOf(file, file.rows[j], "pattern") = p => j <= k
        IN  [mpn  |-> FieldOf(file, file.rows[last], "mpn_per_g"),
             low  |-> FieldOf(file, file.rows[last], "ci_low"),
             high |-> FieldOf(file, file.rows[last], "ci_high")]]

RoutesRegistered == spc = "serving"
Served == fn = "load_mpn_table" /\ looked_up

\* C24: with a table file that is missing, empty, without one of the required
\* columns or with an unparseable row, load_mpn_table raises and the process
\* ends before the routes are registered; routes are registered, and a
\* request or session served, only with the whole table of the file loaded.
C24_BadTableAbortsStartup ==
    /\ [][(BootLoad /\ BadFile(arg)) =>
            (returned'.raised # None /\ spc' = "aborted")]_vars
    /\ [][spc = "aborted" => spc' = "aborted"]_vars
    /\ [](spc = "aborted" => ~looked_up)
    /\ []((RoutesRegistered \/ Served) =>
            (~BadFile(arg) /\ MPN_TABLE = WholeTable(arg)))

\* the load has stopped at the second row, the first row in the table, and
\* the process has ended
C24_Witness ==
    /\ spc = "aborted"
    /\ arg.exists /\ arg.head = <<FullHeader>>
    /\ Len(arg.rows) = 2 /\ arg.rows[2].error
    /\ returned.raised = "RuntimeError"
    /\ DOMAIN MPN_TABLE = {"P300"}

\* C25: a set_conf handled by one session leaves the other session as it is
\* (its threshold and the threshold of its invocations); every step of a
\* session other than its own set_conf leaves its threshold as it is; an
\* invocation is given the threshold of its own session; and a new session
\* starts with 0.4 whatever the sessions before it, or beside it, have set.
C25_ThresholdPrivate ==
    /\ [][\A i \in Sessions :
            (\E kind \in {"number", "missing", "invalid"}, v \in ConfValues :
                PeerSetConf(i, kind, v)) =>
            \A j \in Sessions \ {i} : peers'[j] = peers[j]]_vars
    /\ [][\A i \in Sessions, mode \in {"client", "server"} :
            PeerInvoke(i, mode) =>
                /\ peers'[i].used = peers[i].session_conf
                /\ \A j \in Sessions \ {i} : peers'[j] = peers[j]]_vars
    /\ [][\A i \in Sessions :
            PeerAccept(i) =>
                /\ peers'[i].session_conf = DEFAULT_CONF
                /\ \A j \in Sessions \ {i} : peers'[j] = peers[j]]_vars
    /\ [][\A i \in Sessions :
            (peers[i].pc = "recv" /\ peers'[i].session_conf # peers[i].session_conf) =>
                \E kind \in {"number", "missing", "invalid"}, v \in ConfValues :
                    PeerSetConf(i, kind, v)]_vars

\* one session has set 0.9 and used it; the other, accepted after that, has
\* processed a frame with 0.4
C25_Witness ==
    /\ peers[1].pc = "recv" /\ peers[1].session_conf = 90 /\ peers[1].used = 90
    /\ peers[2].pc = "recv" /\ peers[2].session_conf = DEFAULT_CONF
    /\ peers[2].used = DEFAULT_CONF

\* C26: every invocation, of a pushed frame or of a polled one, is given the
\* value of the last set_conf with a number handled before it, 0.4 if there
\* was none.
C26_InvocationGetsLastNumeric ==
    [][\A i \in Sessions, mode \in {"client", "server"} :
            PeerInvoke(i, mode) => peers'[i].used = peers[i].numeric]_vars

\* C27: is_running changes only when a start() succeeds (to true) and when a
\* stop() begins (to false); and while it is true a capture thread is alive
\* and the capture object is there, unreleased, also after the loop has seen
\* the device as no longer opened.
C27_RunningReflectsLifecycle ==
    /\ [][is_running' # is_running =>
            IF is_running' THEN lastCall' = "start" ELSE cpc' = "stop_join"]_vars
    /\ [](is_running => (Unreleased /\ thread # 0 /\ IsAlive(thread)))

\* C29: the frame lock is held only for the assignment of the slot or for its
\* read: a capture thread holds it at line 41 only (never in a device read,
\* in its 100 ms sleep or at the loop condition), and the caller holds it
\* inside get_frame and for the clearing at the end of stop() only (never
\* while stop() joins the thread or releases the device).
C29_LockOnlyForSlot ==
    /\ \A t \in Handles : frame_lock = t => tpc[t] = "locked"
    /\ \A t \in Handles : tpc[t] \in {"reading", "sleep"} => frame_lock # t
    /\ frame_lock = Caller => cpc \in {"get_locked", "stop_clearing"}
    /\ cpc \in {"stop_join", "stop_joining", "stop_release", "stop_unset"} =>
            frame_lock # Caller

\* get_frame() holds the lock while a capture thread is inside a device read
C29_Witness ==
    /\ cpc = "get_locked"
    /\ frame_lock = Caller
    /\ \E t \in Handles : tpc[t] = "reading"

\* C30: whenever no start() or stop() is in progress, at most one capture
\* thread of the Camera is alive (each alive thread goes on to write the
\* frames its reads deliver).
C30_OneCaptureThread ==
    cpc = "idle" => Cardinality(Alive) <= 1

\* out picks detections of inp, in the order of inp
IsSubList(out, inp) ==
    \E f \in [1..Len(out) -> 1..Len(inp)] :
        /\ \A i \in 1..Len(out) : out[i] = inp[f[i]]
        /\ \A i, j \in 1..Len(out) : i < j => f[i] < f[j]

\* C31: the output of suppress_duplicate_tubes is a sub-list of the input
\* ordered by left edge, and the horizontal centres of any two consecutive
\* detections of it are at least 0.4 times the average width of the input
\* apart.
C31_OnePerPosition ==
    Suppressed =>
        LET out == returned.value
        IN  /\ IsSubList(out, SortByLeft(arg))
            /\ \A k \in 1..(Len(out) - 1) :
                    5 * Len(arg) * Abs((out[k + 1].bbox[1] + out[k + 1].bbox[3])
                                       - (out[k].bbox[1] + out[k].bbox[3]))
                        >= 4 * SumWidths(arg)

\* C32: a start() that fails because the device does not open leaves the
\* camera as it was: not running, no capture thread more than before, and no
\* capture object in cap; and when the session is closed no capture object
\* that a start created is left unreleased.
C32_FailedStartLeavesNothing ==
    /\ [][((StartCalled \/ StartCommand) /\ lastCall' = "start_error") =>
            (/\ ~is_running'
             /\ cap' = 0
             /\ UNCHANGED <<thread, tpc>>)]_vars
    /\ [](spc = "closed" => \A h \in Handles : handles[h] \in {"unused", "released"})

DetectorCalled == fn = "run_inference_with_count" /\ returned.raised = None

\* C33: whatever float conf is, the threshold the detector gets is a number
\* from 0.05 to 0.95: conf itself when it lies there, 0.05 when it is below,
\* 0.95 when it is above, and 0.95 when it is NaN.
C33_ThresholdClamped ==
    DetectorCalled =>
        LET given == returned.value
        IN  /\ ~given.nan
            /\ given.v \in 5..95
            /\ (~arg.nan /\ arg.v \in 5..95) => given.v = arg.v
            /\ (~arg.nan /\ arg.v < 5) => given.v = 5
            /\ (~arg.nan /\ arg.v > 95) => given.v = 95
            /\ arg.nan => given.v = 95

\* a threshold greater than 1 has been brought down to 0.95
C33_Witness ==
    /\ DetectorCalled
    /\ arg = Float(150)
    /\ returned.value = Float(95)

\* C33 as stated: the threshold the detector gets equals
\* min(0.95, max(0.05, conf)) whatever conf is.
C33_ClampAsStated ==
    DetectorCalled => returned.value = PyMin(Float(95), PyMax(Float(5), arg))

\* C34: once init_db() has run, and after every save_prediction() and
\* delete_prediction(), the table holds at most MAX_HISTORY rows; the rows a
\* save removes are no younger by created_at than any row it leaves, and the
\* row just saved is left.
C34_HistoryBounded ==
    /\ db.pc = "ready" => Cardinality(db.rows) <= MAX_HISTORY
    /\ db.last.op = "save" =>
            /\ \A r \in db.last.removed, q \in db.rows : r.created_at <= q.created_at
            /\ \E q \in db.rows : q.id = db.last.id
====
